---- MODULE Spec2Model ----
(***************************************************************************)
(* Model of src/imageProcessing/functions.py: the randomized audio         *)
(* augmentation transforms (AudioTransform gate, Compose, OneOf,           *)
(* GaussianNoiseSNR, PinkNoiseSNR, PitchShift, TimeShift).                 *)
(*                                                                         *)
(* Transform objects live in the pool objs (an object's id is its index);  *)
(* a composite holds the ids of its children.  Waveform buffers live in a  *)
(* heap (a buffer's reference is its index), so that "returns the same     *)
(* array", "returns a new array" and "writes into an array" are distinct.  *)
(* Waveforms are arrays of an integer dtype; probabilities are numerators  *)
(* over Scale, np.random.rand() draws r/Scale with r in 0..Scale-1.        *)
(* A call is nondeterministic in its random draws: the operators below     *)
(* return the SET of outcomes of a call, each outcome carrying the trace   *)
(* of draws and calls that produced it.                                    *)
(***************************************************************************)
EXTENDS Integers, Sequences, FiniteSets, Bags, TLC

VARIABLES objs, attempt, raised, target, y0, heap, ret, exc, trace

vars == <<objs, attempt, raised, target, y0, heap, ret, exc, trace>>

(* ------------------------------ bounds --------------------------------- *)
MaxLen == 5
MaxDense == 2
Scale == 2

SampleVals == {-1, 0, 1}
Half == Scale \div 2
RandVals == 0 .. (Scale - 1)
PVals == {-1, 0, Half, Scale, Scale + 1}
PaddingModes == {"replace", "zero", "bogus"}
ShiftCfgs == {[sr |-> 1, max_shift_second |-> 1],
              [sr |-> 2, max_shift_second |-> 3],
              [sr |-> 2, max_shift_second |-> 0]}
SnrCfgs == {[min_snr |-> 0, max_snr |-> 20], [min_snr |-> 20, max_snr |-> 20]}
StepCfgs == {0, 1}

Ramp(n) == [i \in 1 .. n |-> i]
Waveforms == {Ramp(n) : n \in 0 .. MaxLen}
             \cup UNION {[1 .. n -> SampleVals] : n \in 1 .. MaxDense}

(* --------------------------- numeric helpers --------------------------- *)
Abs(x) == IF x < 0 THEN -x ELSE x
Min(a, b) == IF a < b THEN a ELSE b
Max(a, b) == IF a > b THEN a ELSE b
PeakAbs(y) == CHOOSE m \in {Abs(y[i]) : i \in 1 .. Len(y)} :
                 \A i \in 1 .. Len(y) : Abs(y[i]) <= m
TruncDiv(a, b) == IF a >= 0 THEN a \div b ELSE -((-a) \div b)
Ev(e, o, v) == [ev |-> e, obj |-> o, val |-> v]
Done(h, r) == [heap |-> h, ret |-> r, exc |-> "", trace |-> <<>>]
Raise(h, e) == [heap |-> h, ret |-> 0, exc |-> e, trace |-> <<>>]
Prepend(evs, outs) == {[o EXCEPT !.trace = evs \o @] : o \in outs}
Alloc(h, y) == [heap |-> Append(h, y), ref |-> Len(h) + 1]

(* ------------------------------ constructors --------------------------- *)
(* A constructor yields [ok, exc, obj]: the object, or the exception that   *)
(* left __init__.                                                           *)
AudioTransformInit(always_apply, p) ==
    [ok |-> TRUE, exc |-> "",
     obj |-> [cls |-> "AudioTransform", always_apply |-> always_apply, p |-> p]]

GaussianNoiseSNRInit(always_apply, p, min_snr, max_snr) ==
    [ok |-> TRUE, exc |-> "",
     obj |-> [cls |-> "GaussianNoiseSNR", always_apply |-> always_apply, p |-> p,
              min_snr |-> min_snr, max_snr |-> max_snr]]

PinkNoiseSNRInit(always_apply, p, min_snr, max_snr) ==
    [ok |-> TRUE, exc |-> "",
     obj |-> [cls |-> "PinkNoiseSNR", always_apply |-> always_apply, p |-> p,
              min_snr |-> min_snr, max_snr |-> max_snr]]

PitchShiftInit(always_apply, p, max_steps, sr) ==
    [ok |-> TRUE, exc |-> "",
     obj |-> [cls |-> "PitchShift", always_apply |-> always_apply, p |-> p,
              max_steps |-> max_steps, sr |-> sr]]

TimeShiftInitNoAssert(always_apply, p, max_shift_second, sr, padding_mode) ==
    [ok |-> TRUE, exc |-> "",
     obj |-> [cls |-> "TimeShift", always_apply |-> always_apply, p |-> p,
              max_shift_second |-> max_shift_second, sr |-> sr,
              padding_mode |-> padding_mode]]

TimeShiftInit(always_apply, p, max_shift_second, sr, padding_mode) ==
    IF padding_mode \notin {"replace", "zero"}
    THEN [ok |-> FALSE, exc |-> "AssertionError", obj |-> <<>>]
    ELSE [ok |-> TRUE, exc |-> "",
          obj |-> [cls |-> "TimeShift", always_apply |-> always_apply, p |-> p,
                   max_shift_second |-> max_shift_second, sr |-> sr,
                   padding_mode |-> padding_mode]]

ComposeInit(transforms) ==
    [ok |-> TRUE, exc |-> "", obj |-> [cls |-> "Compose", transforms |-> transforms]]

OneOfInit(transforms) ==
    [ok |-> TRUE, exc |-> "", obj |-> [cls |-> "OneOf", transforms |-> transforms]]

(* ------------------------- numpy / library primitives ------------------ *)
(* np.random.randint(low, high): an integer of low .. high-1; ValueError    *)
(* when low >= high.                                                        *)
RandInt(low, high) == low .. (high - 1)

(* np.roll(y, shift) on a 1-D array: a NEW array, result[shift:] = y[:n-k], *)
(* result[:k] = y[n-k:] with k = shift mod n.                               *)
NpRollShiftNoWrap(h, ref, shift) ==
    LET y == h[ref]
        n == Len(y)
    IN  Alloc(h, [j \in 1 .. n |-> IF j - shift \in 1 .. n THEN y[j - shift] ELSE 0])

NpRollInPlace(h, ref, shift) ==
    LET y == h[ref]
        n == Len(y)
        k == IF n = 0 THEN 0 ELSE shift % n
    IN  [heap |-> [h EXCEPT ![ref] =
                      [j \in 1 .. n |-> IF j > k THEN y[j - k] ELSE y[n - k + j]]],
         ref |-> ref]

NpRoll(h, ref, shift) ==
    LET y == h[ref]
        n == Len(y)
        k == IF n = 0 THEN 0 ELSE shift % n
    IN  Alloc(h, [j \in 1 .. n |-> IF j > k THEN y[j - k] ELSE y[n - k + j]])

(* Python slice bounds for an array of length n: a[:stop] and a[start:].    *)
SliceStop(stop, n) == IF stop < 0 THEN Max(n + stop, 0) ELSE Min(stop, n)
SliceStart(start, n) == IF start < 0 THEN Max(n + start, 0) ELSE Min(start, n)

(* augmented[:shift] = 0, in place on buffer ref.                           *)
ZeroHeadOffByOne(h, ref, shift) ==
    LET n == Len(h[ref])
    IN  [h EXCEPT ![ref] =
            [j \in 1 .. n |-> IF j <= SliceStop(shift - 1, n) THEN 0 ELSE @[j]]]

ZeroHead(h, ref, shift) ==
    LET n == Len(h[ref])
    IN  [h EXCEPT ![ref] =
            [j \in 1 .. n |-> IF j <= SliceStop(shift, n) THEN 0 ELSE @[j]]]

(* augmented[shift:] = 0, in place on buffer ref.                           *)
ZeroTailTruncating(h, ref, shift) ==
    LET n == Len(h[ref])
    IN  [h EXCEPT ![ref] = SubSeq(@, 1, SliceStart(shift, n))]

ZeroTail(h, ref, shift) ==
    LET n == Len(h[ref])
    IN  [h EXCEPT ![ref] =
            [j \in 1 .. n |-> IF j > SliceStart(shift, n) THEN 0 ELSE @[j]]]

(* np.random.uniform(min_snr, max_snr), sampled where 10 ** (snr / 20) is   *)
(* an integer.                                                              *)
SnrDraws(min_snr, max_snr) == {s \in {0, 20, 40} : min_snr <= s /\ s <= max_snr}
Pow10(snr) == IF snr = 0 THEN 1 ELSE IF snr = 20 THEN 10 ELSE 100

(* np.random.randn(n) / cn.powerlaw_psd_gaussian(1, n): a noise vector of   *)
(* length n; only its ratio to its own peak enters the result.              *)
NoiseShapes == {1, 2}
Noise(shape, n) ==
    IF shape = 1 THEN [i \in 1 .. n |-> 1]
    ELSE [i \in 1 .. n |-> IF i = 1 THEN -2 ELSE 1]

(* (y + noise * 1 / a_peak * a_noise).astype(y.dtype) for an integer dtype: *)
(* a new array, each sample truncated toward zero.                          *)
MixNoise(y, noise, snr) ==
    LET a_signal == PeakAbs(y)
        a_peak == PeakAbs(noise)
        den == a_peak * Pow10(snr)
    IN  [i \in 1 .. Len(y) |-> TruncDiv(y[i] * den + noise[i] * a_signal, den)]

(* librosa.effects.pitch_shift(y, sr, n_steps): an opaque primitive; the    *)
(* waveforms it may return for y, all of the length of y (on an empty y it  *)
(* may raise instead, see PitchShiftApply).                                 *)
PitchShiftPrimitive(y, sr, n_steps) ==
    IF n_steps = 0 THEN {y}
    ELSE {[i \in 1 .. Len(y) |-> c * y[i]] : c \in {-1, 1}}

(* ----------------------------- apply methods --------------------------- *)
(* Each returns the set of outcomes [heap, ret, exc, trace] of one call     *)
(* on the buffer ref of heap h.                                             *)

(* AudioTransform.apply: not implemented in the base class.                 *)
AudioTransformApply(id, ref, h) == {Raise(h, "NotImplementedError")}

(* GaussianNoiseSNR.apply; .max() of an empty array raises ValueError after *)
(* the snr draw.                                                            *)
GaussianNoiseSNRApply(id, ref, h) ==
    LET o == objs[id]
        y == h[ref]
    IN  UNION {
          Prepend(<<Ev("uniform", id, snr)>>,
            IF Len(y) = 0 THEN {Raise(h, "ValueError")}
            ELSE UNION {
                   LET a == Alloc(h, MixNoise(y, Noise(shape, Len(y)), snr))
                   IN  Prepend(<<Ev("randn", id, shape)>>, {Done(a.heap, a.ref)})
                   : shape \in NoiseShapes})
          : snr \in SnrDraws(o.min_snr, o.max_snr)}

(* PinkNoiseSNR.apply: as above with the colored-noise generator.           *)
PinkNoiseSNRApply(id, ref, h) ==
    LET o == objs[id]
        y == h[ref]
    IN  UNION {
          Prepend(<<Ev("uniform", id, snr)>>,
            IF Len(y) = 0 THEN {Raise(h, "ValueError")}
            ELSE UNION {
                   LET a == Alloc(h, MixNoise(y, Noise(shape, Len(y)), snr))
                   IN  Prepend(<<Ev("powerlaw", id, shape)>>, {Done(a.heap, a.ref)})
                   : shape \in NoiseShapes})
          : snr \in SnrDraws(o.min_snr, o.max_snr)}

(* PitchShift.apply; randint(0, 0) raises ValueError, and the primitive may *)
(* reject an empty waveform.                                                *)
PitchShiftApply(id, ref, h) ==
    LET o == objs[id]
        y == h[ref]
    IN  IF -o.max_steps >= o.max_steps THEN {Raise(h, "ValueError")}
        ELSE UNION {
               Prepend(<<Ev("randint", id, n_steps)>>,
                 {LET a == Alloc(h, w) IN Done(a.heap, a.ref)
                    : w \in PitchShiftPrimitive(y, o.sr, n_steps)}
                 \cup (IF Len(y) = 0 THEN {Raise(h, "ParameterError")} ELSE {}))
               : n_steps \in RandInt(-o.max_steps, o.max_steps)}

(* TimeShift.apply; randint(0, 0) raises ValueError.                        *)
TimeShiftApply(id, ref, h) ==
    LET o == objs[id]
        low == -o.sr * o.max_shift_second
        high == o.sr * o.max_shift_second
    IN  IF low >= high THEN {Raise(h, "ValueError")}
        ELSE {LET augmented == NpRoll(h, ref, shift)
                  h2 == IF o.padding_mode = "zero"
                        THEN IF shift > 0
                             THEN ZeroHead(augmented.heap, augmented.ref, shift)
                             ELSE ZeroTail(augmented.heap, augmented.ref, shift)
                        ELSE augmented.heap
              IN  [heap |-> h2, ret |-> augmented.ref, exc |-> "",
                   trace |-> <<Ev("randint", id, shift)>>]
              : shift \in RandInt(low, high)}

Apply(id, ref, h) ==
    Prepend(<<Ev("apply", id, 0)>>,
      CASE objs[id].cls = "GaussianNoiseSNR" -> GaussianNoiseSNRApply(id, ref, h)
        [] objs[id].cls = "PinkNoiseSNR" -> PinkNoiseSNRApply(id, ref, h)
        [] objs[id].cls = "PitchShift" -> PitchShiftApply(id, ref, h)
        [] objs[id].cls = "TimeShift" -> TimeShiftApply(id, ref, h)
        [] OTHER -> AudioTransformApply(id, ref, h))

(* ------------------------------ __call__ ------------------------------- *)
(* AudioTransform.__call__: the gate.                                       *)
AudioTransformCallInclusive(id, ref, h) ==
    IF objs[id].always_apply THEN Apply(id, ref, h)
    ELSE UNION {
           Prepend(<<Ev("rand", id, r)>>,
             IF r <= objs[id].p THEN Apply(id, ref, h) ELSE {Done(h, ref)})
           : r \in RandVals}

AudioTransformCall(id, ref, h) ==
    IF objs[id].always_apply THEN Apply(id, ref, h)
    ELSE UNION {
           Prepend(<<Ev("rand", id, r)>>,
             IF r < objs[id].p THEN Apply(id, ref, h) ELSE {Done(h, ref)})
           : r \in RandVals}

RECURSIVE Invoke(_, _, _, _)
RECURSIVE ComposeLoop(_, _, _, _)

(* Compose.__call__: the loop from child k on.                              *)
ComposeLoop(id, k, ref, h) ==
    IF k > Len(objs[id].transforms) THEN {Done(h, ref)}
    ELSE UNION {
           IF a.exc # "" THEN {a}
           ELSE Prepend(a.trace, ComposeLoop(id, k + 1, a.ret, a.heap))
           : a \in Invoke(objs[id].transforms[k], id, ref, h)}

RECURSIVE ComposeLoopReversed(_, _, _, _)
ComposeLoopReversed(id, k, ref, h) ==
    IF k < 1 THEN {Done(h, ref)}
    ELSE UNION {
           IF a.exc # "" THEN {a}
           ELSE Prepend(a.trace, ComposeLoopReversed(id, k - 1, a.ret, a.heap))
           : a \in Invoke(objs[id].transforms[k], id, ref, h)}

ComposeCallReversed(id, ref, h) ==
    ComposeLoopReversed(id, Len(objs[id].transforms), ref, h)

ComposeCall(id, ref, h) == ComposeLoop(id, 1, ref, h)

(* OneOf.__call__; np.random.choice(0) raises ValueError.                   *)
OneOfCallNextIndex(id, ref, h) ==
    LET n_trns == Len(objs[id].transforms)
    IN  IF n_trns = 0 THEN {Raise(h, "ValueError")}
        ELSE UNION {
               Prepend(<<Ev("choice", id, trns_idx)>>,
                 Invoke(objs[id].transforms[((trns_idx + 1) % n_trns) + 1], id, ref, h))
               : trns_idx \in 0 .. (n_trns - 1)}

OneOfCall(id, ref, h) ==
    LET n_trns == Len(objs[id].transforms)
    IN  IF n_trns = 0 THEN {Raise(h, "ValueError")}
        ELSE UNION {
               Prepend(<<Ev("choice", id, trns_idx)>>,
                 Invoke(objs[id].transforms[trns_idx + 1], id, ref, h))
               : trns_idx \in 0 .. (n_trns - 1)}

(* trns(y): the call of object id made by `by` (0: the caller), dispatched  *)
(* on the object's class.                                                   *)
Invoke(id, by, ref, h) ==
    Prepend(<<Ev("call", id, by)>>,
      CASE objs[id].cls = "Compose" -> ComposeCall(id, ref, h)
        [] objs[id].cls = "OneOf" -> OneOfCall(id, ref, h)
        [] OTHER -> AudioTransformCall(id, ref, h))

(* ------------------------------- actions ------------------------------- *)
NoCall == /\ target = 0 /\ y0 = <<>> /\ heap = <<>> /\ ret = 0 /\ exc = "" /\ trace = <<>>

Construct(args, res) ==
    /\ attempt' = args
    /\ raised' = res.exc
    /\ objs' = IF res.ok THEN Append(objs, res.obj) ELSE objs
    /\ UNCHANGED <<target, y0, heap, ret, exc, trace>>

ConstructAudioTransform ==
    \E always_apply \in BOOLEAN, p \in PVals :
       Construct([cls |-> "AudioTransform", p |-> p, padding_mode |-> ""],
                 AudioTransformInit(always_apply, p))

ConstructGaussianNoiseSNR ==
    \E always_apply \in BOOLEAN, p \in PVals, c \in SnrCfgs :
       Construct([cls |-> "GaussianNoiseSNR", p |-> p, padding_mode |-> ""],
                 GaussianNoiseSNRInit(always_apply, p, c.min_snr, c.max_snr))

ConstructPinkNoiseSNR ==
    \E always_apply \in BOOLEAN, p \in PVals, c \in SnrCfgs :
       Construct([cls |-> "PinkNoiseSNR", p |-> p, padding_mode |-> ""],
                 PinkNoiseSNRInit(always_apply, p, c.min_snr, c.max_snr))

ConstructPitchShift ==
    \E always_apply \in BOOLEAN, p \in PVals, max_steps \in StepCfgs :
       Construct([cls |-> "PitchShift", p |-> p, padding_mode |-> ""],
                 PitchShiftInit(always_apply, p, max_steps, 1))

ConstructTimeShift ==
    \E always_apply \in BOOLEAN, p \in PVals, c \in ShiftCfgs, padding_mode \in PaddingModes :
       Construct([cls |-> "TimeShift", p |-> p, padding_mode |-> padding_mode],
                 TimeShiftInit(always_apply, p, c.max_shift_second, c.sr, padding_mode))

ConstructCompose ==
    Construct([cls |-> "Compose", p |-> 0, padding_mode |-> ""], ComposeInit(<<>>))

ConstructOneOf ==
    Construct([cls |-> "OneOf", p |-> 0, padding_mode |-> ""], OneOfInit(<<>>))

(* The caller passes a waveform y (buffer 1 of a fresh heap) to object id.  *)
Call ==
    \E id \in 1 .. Len(objs), y \in Waveforms :
       /\ target = 0
       /\ \E out \in Invoke(id, 0, 1, <<y>>) :
             /\ target' = id
             /\ y0' = y
             /\ heap' = out.heap
             /\ ret' = out.ret
             /\ exc' = out.exc
             /\ trace' = out.trace
             /\ UNCHANGED <<objs, attempt, raised>>

(* The caller drops the result of the last call and its buffers.            *)
Discard ==
    /\ target # 0
    /\ target' = 0 /\ y0' = <<>> /\ heap' = <<>> /\ ret' = 0 /\ exc' = "" /\ trace' = <<>>
    /\ UNCHANGED <<objs, attempt, raised>>

NoAttempt == [cls |-> "", p |-> 0, padding_mode |-> ""]

(* One transform, constructed and then called any number of times.          *)
Init == /\ objs = <<>> /\ attempt = NoAttempt /\ raised = "" /\ NoCall

Next ==
    \/ objs = <<>> /\ ConstructAudioTransform
    \/ objs = <<>> /\ ConstructGaussianNoiseSNR
    \/ objs = <<>> /\ ConstructPinkNoiseSNR
    \/ objs = <<>> /\ ConstructPitchShift
    \/ objs = <<>> /\ ConstructTimeShift
    \/ objs = <<>> /\ ConstructCompose
    \/ objs = <<>> /\ ConstructOneOf
    \/ Call
    \/ Discard

Spec == Init /\ [][Next]_vars

(* A pipeline built once (leaves 1-5, compositions 6-13), then called any   *)
(* number of times.                                                         *)
PipePool ==
    << TimeShiftInit(TRUE, Half, 1, 1, "zero").obj,
       GaussianNoiseSNRInit(FALSE, Half, 20, 20).obj,
       PitchShiftInit(TRUE, Half, 1, 1).obj,
       PinkNoiseSNRInit(TRUE, 0, 20, 20).obj,
       TimeShiftInit(FALSE, Half, 1, 2, "replace").obj,
       ComposeInit(<<1, 2>>).obj,
       ComposeInit(<<2, 1>>).obj,
       OneOfInit(<<1, 2, 3>>).obj,
       ComposeInit(<<>>).obj,
       OneOfInit(<<>>).obj,
       ComposeInit(<<8, 4, 5>>).obj,
       OneOfInit(<<11, 7, 9>>).obj,
       ComposeInit(<<3, 12>>).obj >>

InitPipe == /\ objs = PipePool /\ attempt = NoAttempt /\ raised = "" /\ NoCall

NextPipe == Call \/ Discard

SpecPipe == InitPipe /\ [][NextPipe]_vars

(* ------------------------- reading a call record ----------------------- *)
Called == target # 0
IsLeaf(o) == o.cls \notin {"Compose", "OneOf"}
EventsOf(e, id) == SelectSeq(trace, LAMBDA x : x.ev = e /\ x.obj = id)
DirectCalls(id) == SelectSeq(trace, LAMBDA x : x.ev = "call" /\ x.val = id)
Output == heap[ret]
(* A call of a TimeShift that drew its shift and returned.                  *)
TimeShiftRan(mode) ==
    /\ Called
    /\ objs[target].cls = "TimeShift"
    /\ objs[target].padding_mode = mode
    /\ exc = ""
    /\ Len(EventsOf("randint", target)) = 1
Shift == EventsOf("randint", target)[1].val
(* Sample i of y rotated forward by s positions, circularly.                *)
Rotated(y, s, i) == y[((i - 1 - s) % Len(y)) + 1]
SeqBag(sq) ==
    [v \in {sq[i] : i \in 1 .. Len(sq)} |-> Cardinality({i \in 1 .. Len(sq) : sq[i] = v})]

(* C1: the gate of every transform: apply runs exactly once when            *)
(* always_apply holds or the single uniform draw is below p; otherwise      *)
(* apply does not run and the very same input buffer is returned.  Hence    *)
(* p = 0 without always_apply returns the input on every call, and p = 1    *)
(* or always_apply runs apply on every call.                                *)
C1_GateDecides ==
    (Called /\ IsLeaf(objs[target])) =>
       LET o == objs[target]
           rands == EventsOf("rand", target)
           applies == EventsOf("apply", target)
       IN  /\ IF o.always_apply
              THEN Len(rands) = 0 /\ Len(applies) = 1
              ELSE /\ Len(rands) = 1
                   /\ rands[1].val \in 0 .. (Scale - 1)
                   /\ IF rands[1].val < o.p
                      THEN Len(applies) = 1
                      ELSE /\ Len(applies) = 0
                           /\ exc = "" /\ ret = 1 /\ heap = <<y0>>
           /\ (~o.always_apply /\ o.p = 0) => (ret = 1 /\ heap = <<y0>>)
           /\ (o.always_apply \/ o.p = Scale) => Len(applies) = 1

C1_Witness ==
    /\ Called /\ IsLeaf(objs[target])
    /\ ~objs[target].always_apply /\ objs[target].p = Half
    /\ Len(EventsOf("rand", target)) = 1
    /\ EventsOf("rand", target)[1].val < Half
    /\ Len(EventsOf("apply", target)) = 1
    /\ exc = "" /\ ret # 1

(* C2: TimeShift in mode "zero" with a drawn shift <= 0 zeroes exactly the  *)
(* last |shift| samples of the rotated waveform and leaves the others equal *)
(* to the rotated values; for shift = 0 the output equals the input.        *)
C2_ZeroTailExact ==
    (TimeShiftRan("zero") /\ Shift <= 0) =>
       LET n == Len(y0)
       IN  /\ Len(Output) = n
           /\ \A i \in 1 .. n :
                 Output[i] = IF i > n - Abs(Shift) THEN 0 ELSE Rotated(y0, Shift, i)
           /\ Shift = 0 => Output = y0

(* C3: TimeShift in mode "zero" with a drawn shift > 0 returns the waveform *)
(* rotated forward by shift with its first min(shift, N) samples 0 and the  *)
(* others equal to the rotated values; [1,2,3,4,5] with shift 2 gives       *)
(* [0,0,1,2,3].                                                             *)
C3_ZeroHeadExact ==
    (TimeShiftRan("zero") /\ Shift > 0) =>
       LET n == Len(y0)
       IN  /\ Len(Output) = n
           /\ \A i \in 1 .. n :
                 Output[i] = IF i <= Min(Shift, n) THEN 0 ELSE Rotated(y0, Shift, i)
           /\ (y0 = <<1, 2, 3, 4, 5>> /\ Shift = 2) => Output = <<0, 0, 1, 2, 3>>

C3_Witness ==
    /\ TimeShiftRan("zero") /\ Shift = 2
    /\ y0 = <<1, 2, 3, 4, 5>> /\ Output = <<0, 0, 1, 2, 3>>

(* C4: p is validated at construction: a constructor called with p outside  *)
(* [0,1] raises, so no transform with such a p is ever in the pool.         *)
C4_ProbabilityValidated ==
    /\ \A i \in 1 .. Len(objs) :
          IsLeaf(objs[i]) => (0 <= objs[i].p /\ objs[i].p <= Scale)
    /\ (attempt.cls \notin {"", "Compose", "OneOf"}
        /\ (attempt.p < 0 \/ attempt.p > Scale)) => raised # ""

(* C8: TimeShift in mode "replace" is a pure circular rotation by shift mod *)
(* N for every drawn shift, so the output holds the same multiset of        *)
(* sample values as the input.                                              *)
C8_ReplaceIsRotation ==
    TimeShiftRan("replace") =>
       LET n == Len(y0)
       IN  /\ Len(Output) = n
           /\ \A i \in 1 .. n : Output[((i - 1 + Shift) % n) + 1] = y0[i]
           /\ SeqBag(Output) = SeqBag(y0)

C8_Witness ==
    /\ TimeShiftRan("replace")
    /\ Len(y0) >= 3 /\ Abs(Shift) >= Len(y0) /\ Shift % Len(y0) # 0
    /\ Output # y0

(* C9: TimeShift with a padding_mode other than "replace" or "zero" fails   *)
(* at construction, before any call and any draw; every TimeShift in the    *)
(* pool has one of the two modes.                                           *)
C9_PaddingModeValidated ==
    /\ \A i \in 1 .. Len(objs) :
          objs[i].cls = "TimeShift" => objs[i].padding_mode \in {"replace", "zero"}
    /\ (attempt.cls = "TimeShift" /\ attempt.padding_mode \notin {"replace", "zero"})
          => (raised = "AssertionError" /\ objs = <<>> /\ ~Called /\ trace = <<>>)

C9_Witness ==
    /\ attempt.cls = "TimeShift" /\ attempt.padding_mode = "bogus"
    /\ raised = "AssertionError" /\ objs = <<>>

(* The ids of the children the object id called itself, in call order.      *)
CalledChildren(id) == [k \in 1 .. Len(DirectCalls(id)) |-> DirectCalls(id)[k].obj]
IsPrefix(a, b) == Len(a) <= Len(b) /\ a = SubSeq(b, 1, Len(a))
TopCall == <<Ev("call", target, 0)>>
(* The recorded call is the outcome o of a sub-call, after the events pre.  *)
RecordIs(pre, o) ==
    /\ trace = pre \o o.trace
    /\ ret = o.ret /\ heap = o.heap /\ exc = o.exc

(* C5: Compose calls each child's gated call exactly once, in list order,   *)
(* each on the output of the one before: for the same draws Compose([A, B]) *)
(* (y) is B(A(y)); an empty Compose returns the input itself.               *)
C5_ComposeInOrder ==
    (Called /\ objs[target].cls = "Compose") =>
       LET cs == objs[target].transforms
       IN  /\ IF exc = "" THEN CalledChildren(target) = cs
              ELSE IsPrefix(CalledChildren(target), cs)
           /\ Len(cs) = 0 => (trace = TopCall /\ ret = 1 /\ heap = <<y0>> /\ exc = "")
           /\ (Len(cs) = 2 /\ exc = "") =>
                 \E a \in Invoke(cs[1], target, 1, <<y0>>) :
                    /\ a.exc = ""
                    /\ IsPrefix(TopCall \o a.trace, trace)
                    /\ \E b \in Invoke(cs[2], target, a.ret, a.heap) :
                          RecordIs(TopCall \o a.trace, b)
           /\ (Len(cs) = 3 /\ exc = "") =>
                 \E a \in Invoke(cs[1], target, 1, <<y0>>) :
                    /\ a.exc = ""
                    /\ IsPrefix(TopCall \o a.trace, trace)
                    /\ \E b \in Invoke(cs[2], target, a.ret, a.heap) :
                          /\ b.exc = ""
                          /\ IsPrefix(TopCall \o a.trace \o b.trace, trace)
                          /\ \E c \in Invoke(cs[3], target, b.ret, b.heap) :
                                RecordIs(TopCall \o a.trace \o b.trace, c)

C5_Witness ==
    /\ Called /\ objs[target].cls = "Compose" /\ exc = ""
    /\ objs[target].transforms = <<2, 1>>
    /\ CalledChildren(target) = <<2, 1>>
    /\ Len(EventsOf("apply", 2)) = 1 /\ Len(EventsOf("apply", 1)) = 1
    /\ Len(heap) = 3 /\ ret = 3 /\ heap[2] # y0 /\ heap[3] # heap[2]

(* C6: a OneOf with children draws an index in [0, len), calls exactly that *)
(* child's gated call once and no other child, and returns its result; the  *)
(* child's own gate still decides, so the input itself may come back.       *)
C6_OneOfExactlyOne ==
    (Called /\ objs[target].cls = "OneOf" /\ Len(objs[target].transforms) > 0) =>
       LET cs == objs[target].transforms
           choices == EventsOf("choice", target)
       IN  /\ Len(choices) = 1
           /\ choices[1].val \in 0 .. (Len(cs) - 1)
           /\ trace[2] = choices[1]
           /\ CalledChildren(target) = <<cs[choices[1].val + 1]>>
           /\ \E a \in Invoke(cs[choices[1].val + 1], target, 1, <<y0>>) :
                 RecordIs(TopCall \o <<choices[1]>>, a)

C6_Witness ==
    /\ Called /\ objs[target].cls = "OneOf" /\ exc = ""
    /\ Len(objs[target].transforms) = 3
    /\ EventsOf("choice", target)[1].val = 1
    /\ CalledChildren(target) = <<objs[target].transforms[2]>>
    /\ Len(EventsOf("apply", objs[target].transforms[2])) = 0
    /\ ret = 1 /\ heap = <<y0>>

(* C7: every call of a transform or of a composition of any nesting that    *)
(* returns, returns a waveform of the length of the input.                  *)
C7_LengthPreserved ==
    (Called /\ exc = "") => (ret \in 1 .. Len(heap) /\ Len(Output) = Len(y0))

C7_Witness ==
    /\ Called /\ exc = "" /\ target = 13
    /\ Len(y0) >= 2
    /\ Len(EventsOf("apply", 3)) = 1 /\ Len(EventsOf("choice", 12)) = 1
    /\ Len(EventsOf("choice", 8)) = 1 /\ Len(EventsOf("apply", 1)) = 1
    /\ Len(EventsOf("apply", 4)) = 1 /\ Len(EventsOf("apply", 5)) = 1
    /\ Output # y0

(* C10: no call writes into the caller's waveform buffer or changes any     *)
(* transform: the zeros of TimeShift go into the rotated copy.              *)
C10_NoMutation ==
    [][(target = 0 /\ target' # 0) => (heap'[1] = y0' /\ objs' = objs)]_vars

C10_Witness ==
    /\ Called /\ exc = "" /\ objs[target].cls = "Compose"
    /\ Len(EventsOf("apply", 1)) = 1 /\ Len(EventsOf("rand", 2)) = 1
    /\ Len(EventsOf("apply", 2)) = 0
    /\ CalledChildren(target) = <<2, 1>>
    /\ y0 = <<1, 2, 3>> /\ heap[1] = <<1, 2, 3>> /\ Output = <<2, 3, 0>>

====
